---- MODULE Spec2Model ----
(***************************************************************************)
(* sdns: a static-configuration DNS responder (lib/sdns.go).               *)
(*                                                                         *)
(* The model covers the Domain Table (Load, FindDomainFromName), the       *)
(* per-record round-robin cursor (Domain.init, GetAddress) and the query   *)
(* dispatcher (handle, answerQuery, answerA, answerNS, recurse).           *)
(*                                                                         *)
(* Strings are tuples of one-character strings, so that indexing and       *)
(* slicing are the operations the Go code performs on them.  The DNS wire  *)
(* library (miekg/dns) and the clock are the environment: NewRR succeeds   *)
(* exactly on well-formed operands, Exchange returns an error or a reply   *)
(* chosen by the environment, the clock returns any non-negative int64.    *)
(***************************************************************************)
EXTENDS Integers, Sequences, FiniteSets, TLC

VARIABLES
    status,           \* "new" | "serving" | "failed" | "crashed" : the process
    exactDomains,     \* Sdns.exactDomains    : key -> *Domain
    wildcardDomains,  \* Sdns.wildcardDomains : key -> *Domain
    address,          \* Sdns.address
    recursors,        \* Sdns.recursors
    nextIdx,          \* Domain.nextIdx, per Domain object
    once,             \* Domain.once,    per Domain object
    load,             \* the activation of NewSdns/Load, if any
    lookup,           \* the last direct FindDomainFromName call and its result
    hs,               \* per query handler: the activation of handle
    hist,             \* history: what was observed, for stating the properties
    csv               \* the last util.CsvStringToMap call and its result

vars == <<status, exactDomains, wildcardDomains, address, recursors,
          nextIdx, once, load, lookup, hs, hist, csv>>

-----------------------------------------------------------------------------
(* Bounds of the model.                                                    *)

\* Longest name given to a direct FindDomainFromName call.
MaxNameLen == 4

\* Most Domain records in one configuration.
MaxDomains == 2

\* Most upstream recursors in one configuration.
MaxRecursors == 2

\* Most hot reloads (Load after construction) in one behaviour.
MaxReloads == 1

\* Most messages handled in one behaviour of the sequential dispatcher.
MaxQueries == 2

\* Most messages handled in one behaviour of the concurrent dispatcher.
MaxConcQueries == 3

\* Most sequential GetAddress calls recorded per Domain record.
MaxCalls == 4

\* Width of Domain.nextIdx in the model (uint64 in the code, scaled down).
CounterBits == 3

\* Longest string given to CsvStringToMap.
MaxCsvLen == 6

-----------------------------------------------------------------------------
(* Strings.                                                                *)

RECURSIVE Pow2(_)
Pow2(n) == IF n = 0 THEN 1 ELSE 2 * Pow2(n - 1)

\* uint64 arithmetic wraps at 2^64; the model wraps at 2^CounterBits.
Wrap == Pow2(CounterBits)

Chars == {"a", "."}

RECURSIVE StringsUpTo(_)
StringsUpTo(n) ==
    IF n = 0 THEN {<<>>}
    ELSE LET S == StringsUpTo(n - 1)
         IN  S \cup {Append(s, c) : s \in {t \in S : Len(t) = n - 1}, c \in Chars}

\* strings.IndexByte: the 0-based index of the first c in s, or -1.
RECURSIVE IndexByteFrom(_, _, _)
IndexByteFrom(s, c, i) ==
    IF i > Len(s) THEN -1
    ELSE IF s[i] = c THEN i - 1
    ELSE IndexByteFrom(s, c, i + 1)

\* The 0-based index of the LAST c in s, or -1.
RECURSIVE LastIndexByteFrom(_, _, _)
LastIndexByteFrom(s, c, i) ==
    IF i < 1 THEN -1
    ELSE IF s[i] = c THEN i - 1
    ELSE LastIndexByteFrom(s, c, i - 1)

IndexByte_last(s, c) == LastIndexByteFrom(s, c, Len(s))

IndexByte(s, c) == IndexByteFrom(s, c, 1)

\* Go's s[i:] for a 0-based i.
SliceFrom(s, i) == SubSeq(s, i + 1, Len(s))

\* strings.TrimRight(s, "."): s without its trailing '.' characters.
RECURSIVE TrimRight(_)
TrimRight(s) ==
    IF Len(s) > 0 /\ s[Len(s)] = "." THEN TrimRight(SubSeq(s, 1, Len(s) - 1))
    ELSE s

-----------------------------------------------------------------------------
(* Domain objects.  A *Domain is a number, 0 is nil.  Name, Addresses and  *)
(* Nameservers are set by the caller before Load and never written by the  *)
(* library; nextIdx and once are the mutable fields.                       *)

nil == 0

Domains ==
    <<  [Name |-> <<"a", ".", "a">>,
         Addresses |-> <<"ip1">>,
         Nameservers |-> <<>>],
        [Name |-> <<"*", ".", "a", ".", "a">>,
         Addresses |-> <<"ip1", "ip2">>,
         Nameservers |-> <<"ns1", "ns2">>],
        [Name |-> <<"a", ".", "a">>,
         Addresses |-> <<"ip2", "ip3", "ip1">>,
         Nameservers |-> <<"ns2", "ns1">>],
        [Name |-> <<"*", ".", "a">>,
         Addresses |-> <<"ip3">>,
         Nameservers |-> <<"ns1">>],
        [Name |-> <<".", "a", ".", "a">>,
         Addresses |-> <<>>,
         Nameservers |-> <<"ns1">>],
        [Name |-> <<"*", ".", "a", ".", "a">>,
         Addresses |-> <<"bad", "ip2">>,
         Nameservers |-> <<"ns1", "bad", "ns2">>],
        [Name |-> <<"*", "a">>,
         Addresses |-> <<"ip1">>,
         Nameservers |-> <<>>],
        [Name |-> <<"*">>,
         Addresses |-> <<"ip1">>,
         Nameservers |-> <<>>],
        [Name |-> <<>>,
         Addresses |-> <<"ip1">>,
         Nameservers |-> <<>>],
        [Name |-> <<".">>,
         Addresses |-> <<"ip1">>,
         Nameservers |-> <<>>],
        [Name |-> <<"*", ".">>,
         Addresses |-> <<"ip2">>,
         Nameservers |-> <<>>]  >>

DomainIds == DOMAIN Domains

RECURSIVE SeqsUpTo(_, _)
SeqsUpTo(S, n) ==
    IF n = 0 THEN {<<>>}
    ELSE LET T == SeqsUpTo(S, n - 1)
         IN  T \cup {Append(t, x) : t \in {u \in T : Len(u) = n - 1}, x \in S}

\* SdnsConfig.  Debug only selects the log writer and is left out.
SdnsConfig(port, addr, recs, doms) ==
    [Port |-> port, Address |-> addr, Recursors |-> recs, Domains |-> doms]

-----------------------------------------------------------------------------
(* The maps.                                                               *)

EmptyMap == [k \in {} |-> nil]

MapPut(m, k, v) == [x \in (DOMAIN m) \cup {k} |-> IF x = k THEN v ELSE m[x]]

\* v, ok := m[k]
MapGet(m, k) ==
    IF k \in DOMAIN m THEN [value |-> m[k], ok |-> TRUE]
    ELSE [value |-> nil, ok |-> FALSE]

-----------------------------------------------------------------------------
(* FindDomainFromName.  The two map reads are separate steps of a handler  *)
(* (ExactProbe, WildcardProbe); a direct call composes them.               *)

NotFound == [domain |-> nil, found |-> FALSE]

\* Lines 342-353: the empty-name return, the exact probe, and the split at
\* the first '.'.  done = FALSE asks for the wildcard probe of `stripped`.
\* A lookup that takes a '.' at the start of the name for no '.' at all.
ExactProbe_noLeadingDot(ex, name) ==
    IF name = <<>> THEN
        [done |-> TRUE, domain |-> nil, found |-> FALSE, stripped |-> <<>>]
    ELSE LET hit == MapGet(ex, name)
             lastDomainNdx == IndexByte(name, ".")
         IN  IF hit.ok THEN
                 [done |-> TRUE, domain |-> hit.value, found |-> TRUE,
                  stripped |-> <<>>]
             ELSE IF lastDomainNdx <= 0 THEN
                 [done |-> TRUE, domain |-> nil, found |-> FALSE,
                  stripped |-> <<>>]
             ELSE
                 [done |-> FALSE, domain |-> nil, found |-> FALSE,
                  stripped |-> SliceFrom(name, lastDomainNdx)]

ExactProbe(ex, name) ==
    IF name = <<>> THEN
        [done |-> TRUE, domain |-> nil, found |-> FALSE, stripped |-> <<>>]
    ELSE LET hit == MapGet(ex, name)
             lastDomainNdx == IndexByte(name, ".")
         IN  IF hit.ok THEN
                 [done |-> TRUE, domain |-> hit.value, found |-> TRUE,
                  stripped |-> <<>>]
             ELSE IF lastDomainNdx < 0 THEN
                 [done |-> TRUE, domain |-> nil, found |-> FALSE,
                  stripped |-> <<>>]
             ELSE
                 [done |-> FALSE, domain |-> nil, found |-> FALSE,
                  stripped |-> SliceFrom(name, lastDomainNdx)]

\* A lookup that climbs every ancestor suffix instead of probing one.
RECURSIVE WildcardProbe_climb(_, _)
WildcardProbe_climb(wc, strippedDomain) ==
    LET hit == MapGet(wc, strippedDomain)
        rest == Tail(strippedDomain)
        nxt == IndexByte(rest, ".")
    IN  IF hit.ok THEN [domain |-> hit.value, found |-> TRUE]
        ELSE IF nxt < 0 THEN NotFound
        ELSE WildcardProbe_climb(wc, SliceFrom(rest, nxt))

\* Lines 354-361: the wildcard probe.
WildcardProbe(wc, strippedDomain) ==
    LET hit == MapGet(wc, strippedDomain)
    IN  [domain |-> hit.value, found |-> hit.ok]

\* A lookup that gives the wildcard index priority over the exact index.
FindDomainFromName_wildcardFirst(ex, wc, name) ==
    LET ndx == IndexByte(name, ".")
        w == IF name = <<>> \/ ndx < 0 THEN NotFound
             ELSE WildcardProbe(wc, SliceFrom(name, ndx))
        p == ExactProbe(ex, name)
    IN  IF w.found THEN w
        ELSE IF p.done THEN [domain |-> p.domain, found |-> p.found]
        ELSE NotFound

FindDomainFromName(ex, wc, name) ==
    LET p == ExactProbe(ex, name)
    IN  IF p.done THEN [domain |-> p.domain, found |-> p.found]
        ELSE WildcardProbe(wc, p.stripped)

-----------------------------------------------------------------------------
(* Load.                                                                   *)

\* Lines 85-94, the body of the loop for one *Domain d: the outcome and the
\* two maps after it.  Indexing Name[0] of "" and Name[1] of "*" panics.
\* A Load that keeps the first record of a key and ignores the later ones.
LoadDomain_firstWins(ex, wc, d) ==
    LET name == Domains[d].Name
    IN  IF Len(name) = 0 THEN
            [outcome |-> "panic", ex |-> ex, wc |-> wc]
        ELSE IF name[1] = "*" THEN
            IF Len(name) < 2 THEN
                [outcome |-> "panic", ex |-> ex, wc |-> wc]
            ELSE IF name[2] # "." THEN
                [outcome |-> "error", ex |-> ex, wc |-> wc]
            ELSE
                [outcome |-> "ok", ex |-> ex,
                 wc |-> IF Tail(name) \in DOMAIN wc THEN wc
                        ELSE MapPut(wc, Tail(name), d)]
        ELSE
            [outcome |-> "ok",
             ex |-> IF name \in DOMAIN ex THEN ex ELSE MapPut(ex, name, d),
             wc |-> wc]

\* A Load that drops the '.' from the wildcard key along with the marker.
LoadDomain_stripSeparator(ex, wc, d) ==
    LET name == Domains[d].Name
    IN  IF Len(name) = 0 THEN
            [outcome |-> "panic", ex |-> ex, wc |-> wc]
        ELSE IF name[1] = "*" THEN
            IF Len(name) < 2 THEN
                [outcome |-> "panic", ex |-> ex, wc |-> wc]
            ELSE IF name[2] # "." THEN
                [outcome |-> "error", ex |-> ex, wc |-> wc]
            ELSE
                [outcome |-> "ok", ex |-> ex,
                 wc |-> MapPut(wc, Tail(Tail(name)), d)]
        ELSE
            [outcome |-> "ok", ex |-> MapPut(ex, name, d), wc |-> wc]

LoadDomain(ex, wc, d) ==
    LET name == Domains[d].Name
    IN  IF Len(name) = 0 THEN
            [outcome |-> "panic", ex |-> ex, wc |-> wc]
        ELSE IF name[1] = "*" THEN
            IF Len(name) < 2 THEN
                [outcome |-> "panic", ex |-> ex, wc |-> wc]
            ELSE IF name[2] # "." THEN
                [outcome |-> "error", ex |-> ex, wc |-> wc]
            ELSE
                [outcome |-> "ok", ex |-> ex, wc |-> MapPut(wc, Tail(name), d)]
        ELSE
            [outcome |-> "ok", ex |-> MapPut(ex, name, d), wc |-> wc]

\* Load run to its end on the list doms, from the maps ex and wc.
RECURSIVE LoadAll(_, _, _, _)
LoadAll(ex, wc, doms, i) ==
    IF i > Len(doms) THEN [ex |-> ex, wc |-> wc]
    ELSE LET r == LoadDomain(ex, wc, doms[i])
         IN  IF r.outcome = "ok" THEN LoadAll(r.ex, r.wc, doms, i + 1)
             ELSE [ex |-> ex, wc |-> wc]

\* The tables a lookup may see if Load is atomic: the one the last Load left
\* and, while a Load runs, the one it will leave.
CompleteTables ==
    {hist.old} \cup
    (IF load.pc \in {"makeExact", "makeWildcard", "range", "return"}
     THEN {LoadAll(EmptyMap, EmptyMap, load.cfg.Domains, 1)}
     ELSE {})

\* No record has ended the loop of Load.
NoStop == [domain |-> nil, outcome |-> "ok"]

NoLoad == [pc |-> "idle", cfg |-> <<>>, i |-> 0, err |-> "nil", caller |-> "none"]

NoLookup == [name |-> <<>>, domain |-> nil, found |-> FALSE, called |-> FALSE]

\* NewSdns, lines 45-57: the port check, then the call of Load.
NewSdns ==
    /\ status = "new"
    /\ load.pc = "new"
    /\ IF load.cfg.Port = 0
       THEN /\ status' = "failed"
            /\ load' = NoLoad
       ELSE /\ status' = status
            /\ load' = [load EXCEPT !.pc = "makeExact"]
    /\ UNCHANGED <<exactDomains, wildcardDomains, address, recursors,
                   nextIdx, once, lookup, csv, hs, hist>>

\* A hot reload: the embedding program calls Load(cfg) on the serving Sdns.
Load(cfg) ==
    /\ status = "serving"
    /\ load.pc = "idle"
    /\ hist.reloads < MaxReloads
    /\ load' = [pc |-> "makeExact", cfg |-> cfg, i |-> 0, err |-> "nil",
                caller |-> "reload"]
    /\ hist' = [hist EXCEPT !.reloads = @ + 1]
    /\ UNCHANGED <<status, exactDomains, wildcardDomains, address, recursors,
                   nextIdx, once, lookup, csv, hs>>

\* Line 77.
LoadMakeExact_keep ==
    /\ load.pc = "makeExact"
    /\ load' = [load EXCEPT !.pc = "makeWildcard"]
    /\ hist' = [hist EXCEPT !.loaded = <<>>, !.loading = TRUE,
                             !.stop = NoStop]
    /\ UNCHANGED <<status, exactDomains, wildcardDomains, address, recursors,
                   nextIdx, once, lookup, csv, hs>>

LoadMakeExact ==
    /\ load.pc = "makeExact"
    /\ exactDomains' = EmptyMap
    /\ load' = [load EXCEPT !.pc = "makeWildcard"]
    /\ hist' = [hist EXCEPT !.loaded = <<>>, !.loading = TRUE,
                             !.stop = NoStop]
    /\ UNCHANGED <<status, wildcardDomains, address, recursors,
                   nextIdx, once, lookup, csv, hs>>

\* Lines 78-82.
LoadMakeWildcard ==
    /\ load.pc = "makeWildcard"
    /\ wildcardDomains' = EmptyMap
    /\ load' = IF Len(load.cfg.Domains) = 0
               THEN [load EXCEPT !.pc = "return"]
               ELSE [load EXCEPT !.pc = "range", !.i = 1]
    /\ UNCHANGED <<status, exactDomains, address, recursors,
                   nextIdx, once, lookup, csv, hs, hist>>

\* A Load that puts the table of the Load before it back when it fails.
LoadRange_rollback ==
    /\ load.pc = "range"
    /\ IF load.i > Len(load.cfg.Domains)
       THEN /\ load' = [load EXCEPT !.pc = "return"]
            /\ UNCHANGED <<status, exactDomains, wildcardDomains, hist>>
       ELSE LET d == load.cfg.Domains[load.i]
                r == LoadDomain(exactDomains, wildcardDomains, d)
            IN  /\ exactDomains' = IF r.outcome = "error" THEN hist.old.ex
                                   ELSE r.ex
                /\ wildcardDomains' = IF r.outcome = "error" THEN hist.old.wc
                                      ELSE r.wc
                /\ status' = IF r.outcome = "panic" THEN "crashed" ELSE status
                /\ load' = CASE r.outcome = "panic" -> NoLoad
                             [] r.outcome = "error" ->
                                  [load EXCEPT !.pc = "return",
                                               !.err = "malformed"]
                             [] OTHER -> [load EXCEPT !.i = @ + 1]
                /\ hist' = IF r.outcome = "ok"
                           THEN [hist EXCEPT !.loaded = Append(@, d)]
                           ELSE [hist EXCEPT !.stop = [domain |-> d,
                                                       outcome |-> r.outcome]]
    /\ UNCHANGED <<address, recursors, nextIdx, once, lookup, csv, hs>>

\* Lines 84-103: one iteration of the loop, or its end.
LoadRange ==
    /\ load.pc = "range"
    /\ IF load.i > Len(load.cfg.Domains)
       THEN /\ load' = [load EXCEPT !.pc = "return"]
            /\ UNCHANGED <<status, exactDomains, wildcardDomains, hist>>
       ELSE LET d == load.cfg.Domains[load.i]
                r == LoadDomain(exactDomains, wildcardDomains, d)
            IN  /\ exactDomains' = r.ex
                /\ wildcardDomains' = r.wc
                /\ status' = IF r.outcome = "panic" THEN "crashed" ELSE status
                /\ load' = CASE r.outcome = "panic" -> NoLoad
                             [] r.outcome = "error" ->
                                  [load EXCEPT !.pc = "return",
                                               !.err = "malformed"]
                             [] OTHER -> [load EXCEPT !.i = @ + 1]
                /\ hist' = IF r.outcome = "ok"
                           THEN [hist EXCEPT !.loaded = Append(@, d)]
                           ELSE [hist EXCEPT !.stop = [domain |-> d,
                                                       outcome |-> r.outcome]]
    /\ UNCHANGED <<address, recursors, nextIdx, once, lookup, csv, hs>>

\* Load returns: to NewSdns (lines 58-68), or to the caller of a hot reload.
\* A Load that also takes the address and the recursors of its configuration.
LoadReturn_setsListen ==
    /\ load.pc = "return"
    /\ IF load.caller = "NewSdns" /\ load.err # "nil"
       THEN /\ status' = "failed"
            /\ UNCHANGED <<address, recursors>>
       ELSE /\ status' = "serving"
            /\ recursors' = load.cfg.Recursors
            /\ address' = <<load.cfg.Address, load.cfg.Port>>
    /\ load' = NoLoad
    /\ hist' = [hist EXCEPT !.loading = FALSE, !.loadErr = load.err,
                             !.cfgDoms = load.cfg.Domains,
                             !.old = [ex |-> exactDomains,
                                      wc |-> wildcardDomains]]
    /\ UNCHANGED <<exactDomains, wildcardDomains, nextIdx, once, lookup, csv, hs>>

LoadReturn ==
    /\ load.pc = "return"
    /\ IF load.caller = "NewSdns"
       THEN IF load.err # "nil"
            THEN /\ status' = "failed"
                 /\ UNCHANGED <<address, recursors>>
            ELSE /\ status' = "serving"
                 /\ recursors' = load.cfg.Recursors
                 /\ address' = <<load.cfg.Address, load.cfg.Port>>
       ELSE UNCHANGED <<status, address, recursors>>
    /\ load' = NoLoad
    /\ hist' = [hist EXCEPT !.loading = FALSE, !.loadErr = load.err,
                             !.cfgDoms = load.cfg.Domains,
                             !.old = [ex |-> exactDomains,
                                      wc |-> wildcardDomains]]
    /\ UNCHANGED <<exactDomains, wildcardDomains, nextIdx, once, lookup, csv, hs>>

\* A direct call s.FindDomainFromName(name), as the tests make it.
Lookup(name) ==
    /\ status = "serving"
    /\ LET r == FindDomainFromName(exactDomains, wildcardDomains, name)
       IN  lookup' = [name |-> name, domain |-> r.domain, found |-> r.found,
                      called |-> TRUE]
    /\ UNCHANGED <<status, exactDomains, wildcardDomains, address, recursors,
                   nextIdx, once, load, hs, hist, csv>>

-----------------------------------------------------------------------------
(* Messages.                                                               *)

Question(name, qtype) == [Name |-> name, Qtype |-> qtype]

Msg(opcode, question) == [Opcode |-> opcode, Question |-> question]

RR(name, rtype, data) == [Name |-> name, Type |-> rtype, Data |-> data]

\* dns.NewRR(fmt.Sprintf("%s <type> %s", name, data)): the library parses the
\* text and fails on an operand that is no address / host name.
NewRR(name, rtype, data) ==
    IF data = "bad" THEN [rr |-> RR(name, rtype, data), err |-> "ErrNewRR"]
    ELSE [rr |-> RR(name, rtype, data), err |-> "nil"]

\* dns.Msg.SetReply, then Compress = false (lines 225-226): the reply mirrors
\* the request's opcode and its first question, with an empty answer section.
SetReply(r) ==
    [Opcode |-> r.Opcode,
     Question |-> IF Len(r.Question) > 0 THEN <<r.Question[1]>> ELSE <<>>,
     Answer |-> <<>>,
     Rcode |-> "Success",
     Compress |-> FALSE]

\* The replies an upstream recursor can give to dns.Client.Exchange.
UpstreamAnswers ==
    { <<>>,
      <<RR("up", "A", "ip8")>>,
      <<RR("up", "A", "ip8"), RR("up", "A", "ip9")>>,
      <<RR("up", "A", "ip9"), RR("up", "A", "ip8")>> }

\* uint64(time.Now().UnixNano()): a non-negative int64.
Seeds == 0 .. (Pow2(CounterBits - 1) - 1)

Handlers == {1, 2}

NoHandler ==
    [pc |-> "idle", r |-> Msg("Query", <<>>), m |-> SetReply(Msg("Query", <<>>)),
     err |-> "nil", stripped |-> <<>>, domain |-> nil, tmp |-> 0, ri |-> 0,
     local |-> "none", contacts |-> <<>>, wrote |-> 0, handled |-> FALSE,
     seenExact |-> EmptyMap, seenOk |-> TRUE, probes |-> 0, bumps |-> 0]

-----------------------------------------------------------------------------
(* The dispatcher.  A handler h runs handle(w, r) for one message at a     *)
(* time; the server starts one handler per inbound message.  Steps are     *)
(* split where shared memory is read or written.                           *)

\* Lines 237-264 up to the loop: the switch on the error of answerQuery.
SwitchErr_onlyNotFound(s) ==
    IF s.err = "ErrDomainNotFound"
    THEN [s EXCEPT !.pc = "recurse", !.ri = 1, !.local = s.err]
    ELSE [s EXCEPT !.pc = "write", !.local = s.err]

SwitchErr_recurseAll(s) ==
    IF s.err # "nil"
    THEN [s EXCEPT !.pc = "recurse", !.ri = 1, !.local = s.err]
    ELSE [s EXCEPT !.pc = "write", !.local = s.err]

SwitchErr(s) ==
    IF s.err \in {"ErrUnsupportedQueryType", "ErrDomainNotFound"}
    THEN [s EXCEPT !.pc = "recurse", !.ri = 1, !.local = s.err]
    ELSE [s EXCEPT !.pc = "write", !.local = s.err]

\* An answerNS that takes a record without nameservers for a miss.
RECURSIVE answerNS_emptyIsMiss(_, _, _, _)
answerNS_emptyIsMiss(name, nss, i, answer) ==
    IF Len(nss) = 0 THEN [answer |-> answer, err |-> "ErrDomainNotFound"]
    ELSE IF i > Len(nss) THEN [answer |-> answer, err |-> "nil"]
    ELSE LET n == NewRR(name, "NS", nss[i])
         IN  IF n.err # "nil"
             THEN [answer |-> answer, err |-> n.err]
             ELSE answerNS_emptyIsMiss(name, nss, i + 1, Append(answer, n.rr))

\* answerNS, lines 157-165: one NS record per nameserver, in order; the
\* first record that cannot be built ends the loop with its error.
RECURSIVE answerNS(_, _, _, _)
answerNS(name, nss, i, answer) ==
    IF i > Len(nss) THEN [answer |-> answer, err |-> "nil"]
    ELSE LET n == NewRR(name, "NS", nss[i])
         IN  IF n.err # "nil"
             THEN [answer |-> answer, err |-> n.err]
             ELSE answerNS(name, nss, i + 1, Append(answer, n.rr))

\* An answerNS that takes an address of the record as answerA does.
AfterFind_nsRotates(s, res) ==
    IF ~res.found THEN SwitchErr([s EXCEPT !.err = "ErrDomainNotFound"])
    ELSE [s EXCEPT !.pc = "once", !.domain = res.domain]

\* answerA / answerNS after FindDomainFromName returned (lines 152-165,
\* 180-186): a miss is ErrDomainNotFound; an A hit goes on to GetAddress.
AfterFind(s, res) ==
    IF ~res.found THEN SwitchErr([s EXCEPT !.err = "ErrDomainNotFound"])
    ELSE IF s.m.Question[1].Qtype = "A"
         THEN [s EXCEPT !.pc = "once", !.domain = res.domain]
         ELSE LET a == answerNS(s.m.Question[1].Name,
                                Domains[res.domain].Nameservers, 1, s.m.Answer)
              IN  SwitchErr([s EXCEPT !.domain = res.domain,
                                      !.m.Answer = a.answer, !.err = a.err])

Receive_ignoreOpcode(h, r) ==
    /\ status = "serving"
    /\ hs[h].pc = "idle"
    /\ LET m == SetReply(r)
           s == [NoHandler EXCEPT !.r = r, !.m = m, !.handled = TRUE]
       IN  hs' = [hs EXCEPT ![h] =
                CASE Len(m.Question) = 0 ->
                        SwitchErr([s EXCEPT !.err = "ErrNoQuestions"])
                  [] m.Question[1].Qtype \in {"A", "NS"} ->
                        [s EXCEPT !.pc = "exact"]
                  [] OTHER ->
                        SwitchErr([s EXCEPT !.err = "ErrUnsupportedQueryType"])]
    /\ hist' = [hist EXCEPT !.queries = @ + 1]
    /\ UNCHANGED <<status, exactDomains, wildcardDomains, address, recursors,
                   nextIdx, once, load, lookup, csv>>

\* handle, lines 214-235, with answerQuery (195-212) up to the table lookup.
Receive(h, r) ==
    /\ status = "serving"
    /\ hs[h].pc = "idle"
    /\ LET m == SetReply(r)
           s == [NoHandler EXCEPT !.r = r, !.m = m, !.handled = TRUE]
       IN  hs' = [hs EXCEPT ![h] =
                CASE r.Opcode # "Query" ->
                        [s EXCEPT !.pc = "write"]
                  [] Len(m.Question) = 0 ->
                        SwitchErr([s EXCEPT !.err = "ErrNoQuestions"])
                  [] m.Question[1].Qtype \in {"A", "NS"} ->
                        [s EXCEPT !.pc = "exact"]
                  [] OTHER ->
                        SwitchErr([s EXCEPT !.err = "ErrUnsupportedQueryType"])]
    /\ hist' = [hist EXCEPT !.queries = @ + 1]
    /\ UNCHANGED <<status, exactDomains, wildcardDomains, address, recursors,
                   nextIdx, once, load, lookup, csv>>

\* FindDomainFromName(strings.TrimRight(name, ".")) up to and including the
\* read of s.exactDomains.
FindExact(h) ==
    /\ status = "serving"
    /\ hs[h].pc = "exact"
    /\ LET s == [hs[h] EXCEPT !.seenExact = exactDomains,
                              !.probes = @ + 1,
                              !.seenOk = \E t \in CompleteTables :
                                             exactDomains = t.ex]
           p == ExactProbe(exactDomains, TrimRight(s.m.Question[1].Name))
       IN  hs' = [hs EXCEPT ![h] =
                IF p.done
                THEN AfterFind(s, [domain |-> p.domain, found |-> p.found])
                ELSE [s EXCEPT !.pc = "wildcard", !.stripped = p.stripped]]
    /\ UNCHANGED <<status, exactDomains, wildcardDomains, address, recursors,
                   nextIdx, once, load, lookup, csv, hist>>

\* The read of s.wildcardDomains and the return of FindDomainFromName.
FindWildcard(h) ==
    /\ status = "serving"
    /\ hs[h].pc = "wildcard"
    /\ LET s == [hs[h] EXCEPT !.probes = @ + 1,
                              !.seenOk = \E t \in CompleteTables :
                                             /\ hs[h].seenExact = t.ex
                                             /\ wildcardDomains = t.wc]
       IN  hs' = [hs EXCEPT ![h] =
                AfterFind(s, WildcardProbe(wildcardDomains, s.stripped))]
    /\ UNCHANGED <<status, exactDomains, wildcardDomains, address, recursors,
                   nextIdx, once, load, lookup, csv, hist>>

-----------------------------------------------------------------------------
(* GetAddress, lines 319-324, as the steps of one handler.                 *)

\* sync.Once.Do(d.init): the first caller runs init; a caller that arrives
\* while init runs waits for it; afterwards Do returns at once.
OnceDo_unguarded(h) ==
    /\ status = "serving"
    /\ hs[h].pc = "once"
    /\ LET d == hs[h].domain
       IN  /\ hs' = [hs EXCEPT ![h].pc =
                        IF once[d] = "done" THEN "increment" ELSE "init"]
           /\ once' = once
    /\ UNCHANGED <<status, exactDomains, wildcardDomains, address, recursors,
                   nextIdx, load, lookup, csv, hist>>

OnceDo(h) ==
    /\ status = "serving"
    /\ hs[h].pc = "once"
    /\ LET d == hs[h].domain
       IN  /\ once[d] # "running"
           /\ IF once[d] = "done"
              THEN /\ hs' = [hs EXCEPT ![h].pc = "increment"]
                   /\ once' = once
              ELSE /\ hs' = [hs EXCEPT ![h].pc = "init"]
                   /\ once' = [once EXCEPT ![d] = "running"]
    /\ UNCHANGED <<status, exactDomains, wildcardDomains, address, recursors,
                   nextIdx, load, lookup, csv, hist>>

\* Domain.init, lines 313-315, and the return of Once.Do.
DomainInit(h) ==
    /\ status = "serving"
    /\ hs[h].pc = "init"
    /\ LET d == hs[h].domain
       IN  \E seed \in Seeds :
              /\ nextIdx' = [nextIdx EXCEPT ![d] = seed]
              /\ once' = [once EXCEPT ![d] = "done"]
              /\ hist' = [hist EXCEPT !.seeds[d] = @ + 1, !.seedVal[d] = seed]
    /\ hs' = [hs EXCEPT ![h].pc = "increment"]
    /\ UNCHANGED <<status, exactDomains, wildcardDomains, address, recursors,
                   load, lookup, csv>>

\* d.nextIdx + 1 in uint64.
Increment(n) == (n + 1) % Wrap

\* d.nextIdx++ (line 321), the read of it.
IncrementRead(h) ==
    /\ status = "serving"
    /\ hs[h].pc = "increment"
    /\ hs' = [hs EXCEPT ![h].tmp = nextIdx[hs[h].domain], ![h].pc = "store"]
    /\ UNCHANGED <<status, exactDomains, wildcardDomains, address, recursors,
                   nextIdx, once, load, lookup, csv, hist>>

\* d.nextIdx++ (line 321), the write of it.
IncrementWrite(h) ==
    /\ status = "serving"
    /\ hs[h].pc = "store"
    /\ LET d == hs[h].domain
       IN  /\ nextIdx' = [nextIdx EXCEPT ![d] = Increment(hs[h].tmp)]
           /\ hist' = [hist EXCEPT !.incs[d] = @ + 1]
    /\ hs' = [hs EXCEPT ![h].pc = "select", ![h].bumps = @ + 1]
    /\ UNCHANGED <<status, exactDomains, wildcardDomains, address, recursors,
                   once, load, lookup, csv>>

\* The number of GetAddress calls that take the counter of a record from the
\* largest seed past its largest value, to 0.
WrapCalls == Pow2(CounterBits - 1) + 1

\* The most calls per record that hist.ret and hist.val list.
LogCap == IF WrapCalls > MaxCalls THEN WrapCalls ELSE MaxCalls

\* Line 323 that selects with the value of the counter before the increment.
AddressIndex_before(n, len) == ((n + Wrap - 1) % Wrap) % len

\* Line 323: d.nextIdx % uint64(len(d.Addresses)), for len > 0.
AddressIndex(n, len) == n % len

\* Line 323 and the rest of answerA (185-192): the read of d.nextIdx, the
\* selection (a division by zero panics, and nothing recovers it), the A
\* record.
Select(h) ==
    /\ status = "serving"
    /\ hs[h].pc = "select"
    /\ LET d == hs[h].domain
           len == Len(Domains[d].Addresses)
       IN  IF len = 0
           THEN /\ status' = "crashed"
                /\ hs' = [hs EXCEPT ![h].pc = "panic"]
                /\ hist' = hist
           ELSE LET addr == Domains[d].Addresses[AddressIndex(nextIdx[d], len) + 1]
                    n == NewRR(hs[h].m.Question[1].Name, "A", addr)
                    s == IF n.err # "nil"
                         THEN [hs[h] EXCEPT !.err = n.err]
                         ELSE [hs[h] EXCEPT !.m.Answer = Append(@, n.rr)]
                IN  /\ status' = status
                    /\ hs' = [hs EXCEPT ![h] = SwitchErr(s)]
                    /\ hist' = IF Len(hist.ret[d]) < LogCap
                               THEN [hist EXCEPT !.ret[d] = Append(@, addr),
                                                 !.val[d] = Append(@, nextIdx[d])]
                               ELSE hist
    /\ UNCHANGED <<exactDomains, wildcardDomains, address, recursors,
                   nextIdx, once, load, lookup, csv>>

\* The Go runtime ends the process ("fatal error: concurrent map read and
\* map write") when it detects a map read by FindDomainFromName (lines 346,
\* 354) during a map write by Load (lines 91, 93) on the same map.
MapRace(h) ==
    /\ status = "serving"
    /\ load.pc = "range"
    /\ load.i <= Len(load.cfg.Domains)
    /\ LET r == LoadDomain(exactDomains, wildcardDomains,
                           load.cfg.Domains[load.i])
       IN  \/ hs[h].pc = "exact" /\ r.ex # exactDomains
           \/ hs[h].pc = "wildcard" /\ r.wc # wildcardDomains
    /\ status' = "crashed"
    /\ hs' = [hs EXCEPT ![h].pc = "fatal"]
    /\ UNCHANGED <<exactDomains, wildcardDomains, address, recursors,
                   nextIdx, once, load, lookup, csv, hist>>

-----------------------------------------------------------------------------
(* Recursion and the reply.                                                *)

\* The loop without its `break`: a later upstream that succeeds overwrites
\* the answer of an earlier one.
Recurse_noBreak(h) ==
    /\ status = "serving"
    /\ hs[h].pc = "recurse"
    /\ LET s == hs[h]
       IN  IF s.ri > Len(recursors)
           THEN hs' = [hs EXCEPT ![h].pc = "write"]
           ELSE LET server == recursors[s.ri]
                IN  \/ hs' = [hs EXCEPT ![h].ri = @ + 1,
                                        ![h].contacts =
                                            Append(@, [server |-> server,
                                                       ok |-> FALSE,
                                                       answer |-> <<>>])]
                    \/ \E in \in UpstreamAnswers :
                          hs' = [hs EXCEPT ![h].m.Answer = in,
                                           ![h].ri = @ + 1,
                                           ![h].contacts =
                                               Append(@, [server |-> server,
                                                          ok |-> TRUE,
                                                          answer |-> in])]
    /\ UNCHANGED <<status, exactDomains, wildcardDomains, address, recursors,
                   nextIdx, once, load, lookup, csv, hist>>

\* The loop that returns from handle when no upstream is left, without
\* reaching WriteMsg.
Recurse_returnOnExhaustion(h) ==
    /\ status = "serving"
    /\ hs[h].pc = "recurse"
    /\ LET s == hs[h]
       IN  IF s.ri > Len(recursors)
           THEN hs' = [hs EXCEPT ![h].pc = "idle"]
           ELSE LET server == recursors[s.ri]
                IN  \/ hs' = [hs EXCEPT ![h].ri = @ + 1,
                                        ![h].contacts =
                                            Append(@, [server |-> server,
                                                       ok |-> FALSE,
                                                       answer |-> <<>>])]
                    \/ \E in \in UpstreamAnswers :
                          hs' = [hs EXCEPT ![h].m.Answer = in,
                                           ![h].pc = "write",
                                           ![h].contacts =
                                               Append(@, [server |-> server,
                                                          ok |-> TRUE,
                                                          answer |-> in])]
    /\ UNCHANGED <<status, exactDomains, wildcardDomains, address, recursors,
                   nextIdx, once, load, lookup, csv, hist>>

\* Lines 247-259 with recurse (106-132): the next upstream is asked; the
\* environment makes Exchange fail or return a reply.
Recurse(h) ==
    /\ status = "serving"
    /\ hs[h].pc = "recurse"
    /\ LET s == hs[h]
       IN  IF s.ri > Len(recursors)
           THEN hs' = [hs EXCEPT ![h].pc = "write"]
           ELSE LET server == recursors[s.ri]
                IN  \/ hs' = [hs EXCEPT ![h].ri = @ + 1,
                                        ![h].contacts =
                                            Append(@, [server |-> server,
                                                       ok |-> FALSE,
                                                       answer |-> <<>>])]
                    \/ \E in \in UpstreamAnswers :
                          hs' = [hs EXCEPT ![h].m.Answer = in,
                                           ![h].pc = "write",
                                           ![h].contacts =
                                               Append(@, [server |-> server,
                                                          ok |-> TRUE,
                                                          answer |-> in])]
    /\ UNCHANGED <<status, exactDomains, wildcardDomains, address, recursors,
                   nextIdx, once, load, lookup, csv, hist>>

\* Line 271: w.WriteMsg(&m), and the return of handle.
WriteMsg(h) ==
    /\ status = "serving"
    /\ hs[h].pc = "write"
    /\ hs' = [hs EXCEPT ![h].wrote = @ + 1, ![h].pc = "idle"]
    /\ UNCHANGED <<status, exactDomains, wildcardDomains, address, recursors,
                   nextIdx, once, load, lookup, csv, hist>>

-----------------------------------------------------------------------------
(* The environment: configurations and inbound messages.                   *)

Servers == {"r1", "r2"}

\* Names as they arrive in a question.
QNames ==
    { <<"a", ".", "a", ".">>,
      <<"a", ".", "a", ".", "a", ".">>,
      <<".", "a", ".", "a">>,
      <<"a", "a", ".">>,
      <<"a", ".", "a", "a">>,
      <<".">> }

Qtypes == {"A", "NS", "TXT"}

Questions == {Question(n, t) : n \in QNames, t \in Qtypes}

Requests ==
    {Msg(op, q) : op \in {"Query", "Notify"},
                  q \in {<<>>} \cup {<<x>> : x \in Questions}
                        \cup {<<x, Question(<<"a", ".", "a", ".">>, "A")>> :
                                 x \in {Question(<<"a", "a", ".">>, "NS"),
                                        Question(<<"a", ".", "a", ".">>, "TXT")}}}

\* Every configuration of at most MaxDomains records of the pool.
TableConfigs ==
    {SdnsConfig(port, "h", <<>>, doms) :
        port \in {53}, doms \in SeqsUpTo(DomainIds, MaxDomains)}
    \cup {SdnsConfig(0, "h", <<>>, <<>>)}

\* The configurations given to a hot reload.
ReloadConfigs ==
    {SdnsConfig(54, "g", <<"r2">>, doms) :
        doms \in SeqsUpTo({1, 2, 4, 7}, MaxDomains)}

\* The configurations the dispatcher is run with.
HandleConfigs ==
    {SdnsConfig(53, "h", recs, doms) :
        recs \in SeqsUpTo(Servers, MaxRecursors),
        doms \in {<<1, 2>>, <<3, 4>>, <<2, 5>>, <<6>>, <<>>}}

HistInit ==
    [reloads |-> 0, loaded |-> <<>>, loading |-> FALSE, loadErr |-> "nil",
     stop |-> NoStop, cfgDoms |-> <<>>,
     queries |-> 0, old |-> [ex |-> EmptyMap, wc |-> EmptyMap],
     seeds |-> [d \in DomainIds |-> 0], seedVal |-> [d \in DomainIds |-> 0],
     incs |-> [d \in DomainIds |-> 0],
     ret |-> [d \in DomainIds |-> <<>>], val |-> [d \in DomainIds |-> <<>>]]

\* The program at the call NewSdns(cfg): a zero Sdns, untouched Domains.
\* No call of CsvStringToMap is under way.
NoCsv == [str |-> <<>>, called |-> FALSE, res |-> EmptyMap, err |-> "nil"]

InitWith(cfgs) ==
    /\ status = "new"
    /\ exactDomains = EmptyMap
    /\ wildcardDomains = EmptyMap
    /\ address = <<>>
    /\ recursors = <<>>
    /\ nextIdx = [d \in DomainIds |-> 0]
    /\ once = [d \in DomainIds |-> "fresh"]
    /\ \E cfg \in cfgs :
          load = [pc |-> "new", cfg |-> cfg, i |-> 0, err |-> "nil",
                  caller |-> "NewSdns"]
    /\ lookup = NoLookup
    /\ hs = [h \in Handlers |-> NoHandler]
    /\ hist = HistInit
    /\ csv = NoCsv

\* A records at "a.a" and below "a.a", and a name no record matches.
AddressRequests ==
    {Msg("Query", <<Question(n, "A")>>) :
        n \in {<<"a", ".", "a", ".">>, <<"a", ".", "a", ".", "a", ".">>,
               <<"a", "a", ".">>}}

\* Records of three and of two addresses, and an upstream for the misses.
AddressConfigs ==
    {SdnsConfig(53, "h", recs, <<3, 2>>) : recs \in {<<>>, <<"r1">>}}

\* The steps of handle for the handler h.
HandleStep(h) ==
    \/ FindExact(h)
    \/ FindWildcard(h)
    \/ OnceDo(h)
    \/ DomainInit(h)
    \/ IncrementRead(h)
    \/ IncrementWrite(h)
    \/ Select(h)
    \/ Recurse(h)
    \/ WriteMsg(h)

\* The steps of NewSdns and Load.
LoadStep ==
    \/ NewSdns
    \/ LoadMakeExact
    \/ LoadMakeWildcard
    \/ LoadRange
    \/ LoadReturn

-----------------------------------------------------------------------------
(* The Domain Table: NewSdns, hot reloads and direct lookups, one call at  *)
(* a time.  Lookups change nothing, so they are made after the reloads.    *)

InitTable == InitWith(TableConfigs)

NextTable ==
    \/ LoadStep
    \/ /\ ~lookup.called
       /\ \E cfg \in ReloadConfigs : Load(cfg)
    \/ /\ load.pc = "idle"
       /\ \E name \in StringsUpTo(MaxNameLen) : Lookup(name)

SpecTable == InitTable /\ [][NextTable]_vars

-----------------------------------------------------------------------------
(* The dispatcher as main.go runs it, one message at a time: NewSdns, then *)
(* Listen.                                                                 *)

Init == InitWith(HandleConfigs)

Next ==
    \/ LoadStep
    \/ /\ hist.queries < MaxQueries
       /\ \E r \in Requests : Receive(1, r)
    \/ HandleStep(1)

Spec == Init /\ [][Next]_vars

-----------------------------------------------------------------------------
(* Properties of FindDomainFromName, on the result of a direct call made   *)
(* while no Load runs.  hist.loaded lists the records the last Load put    *)
(* into the table, in the order of the configuration.                      *)

Max(S) == CHOOSE x \in S : \A y \in S : y <= x

\* The positions in hist.loaded of the records named `name` with no marker.
ExactRecords(name) ==
    {i \in DOMAIN hist.loaded :
        /\ Domains[hist.loaded[i]].Name = name
        /\ name # <<>>
        /\ name[1] # "*"}

\* The positions in hist.loaded of the records named "*" followed by suffix.
WildcardRecords(suffix) ==
    {i \in DOMAIN hist.loaded :
        Domains[hist.loaded[i]].Name = <<"*">> \o suffix}

\* The substring of name from its first '.' to its end, if it has a '.'.
FirstSuffixes(name) ==
    {SubSeq(name, i, Len(name)) :
        i \in {j \in 1 .. Len(name) :
                  /\ name[j] = "."
                  /\ \A k \in 1 .. (j - 1) : name[k] # "."}}

\* C1: a non-empty name under which a record was loaded literally is found,
\* with that record (the last one of that name), whatever wildcard records
\* the table holds.
C1_ExactRecordWins ==
    (/\ lookup.called
     /\ lookup.name # <<>>
     /\ ExactRecords(lookup.name) # {})
    => /\ lookup.found
       /\ lookup.domain = hist.loaded[Max(ExactRecords(lookup.name))]

\* C1, its case: the name has an exact record and a wildcard record whose
\* suffix applies to it as well, and the call has returned.
C1_Witness ==
    /\ lookup.called
    /\ ExactRecords(lookup.name) # {}
    /\ \E s \in FirstSuffixes(lookup.name) : WildcardRecords(s) # {}
    /\ lookup.found

\* C2: a name with no exact record and with a '.', for whose suffix from the
\* first '.' a wildcard record was loaded, is found with that wildcard
\* record; a name that starts with '.' is its own suffix.
C2_WildcardAtFirstSeparator ==
    \A s \in FirstSuffixes(lookup.name) :
        (/\ lookup.called
         /\ ExactRecords(lookup.name) = {}
         /\ WildcardRecords(s) # {})
        => /\ lookup.found
           /\ lookup.domain = hist.loaded[Max(WildcardRecords(s))]

\* C2, its case: a name of several labels that starts with '.', has no exact
\* record and is the suffix of a loaded wildcard record.
C2_Witness ==
    /\ lookup.called
    /\ lookup.name = <<".", "a", ".", "a">>
    /\ ExactRecords(lookup.name) = {}
    /\ WildcardRecords(lookup.name) # {}
    /\ lookup.found

\* C3: found is true only if the name is an exact key or its suffix from the
\* first '.' is a wildcard key; otherwise the result is (nil, false).
C3_FoundOnlyAtFirstSeparator ==
    lookup.called =>
        /\ lookup.found =>
              \/ lookup.name \in DOMAIN exactDomains
              \/ \E s \in FirstSuffixes(lookup.name) :
                    s \in DOMAIN wildcardDomains
        /\ ~lookup.found => lookup.domain = nil
        /\ lookup.name = <<>> => ~lookup.found

\* C3, its case: the only wildcard that could apply is registered for a
\* shorter ancestor suffix, and the name is not found.
C3_Witness ==
    /\ lookup.called
    /\ ~lookup.found
    /\ lookup.name \notin DOMAIN exactDomains
    /\ \E i \in 2 .. Len(lookup.name) :
          /\ lookup.name[i] = "."
          /\ SubSeq(lookup.name, i, Len(lookup.name)) \in DOMAIN wildcardDomains
          /\ SubSeq(lookup.name, i, Len(lookup.name))
                \notin FirstSuffixes(lookup.name)

-----------------------------------------------------------------------------
(* Properties of the dispatcher, on the handler of the sequential program. *)

\* handle has returned for the message in hs[h].r.
Returned(h) == hs[h].handled /\ hs[h].pc = "idle"

\* Local resolution ended in one of the two errors that start recursion.
LocalMiss(h) == hs[h].local \in {"ErrDomainNotFound", "ErrUnsupportedQueryType"}

\* The positions of the upstreams that answered, among those contacted.
Succeeded(h) == {i \in DOMAIN hs[h].contacts : hs[h].contacts[i].ok}

Min(S) == CHOOSE x \in S : \A y \in S : x <= y

\* C4: whatever the message, the table and the upstreams do, the handler
\* never crashes, writes no reply before it returns and has written exactly
\* one reply when it returns.
C4_AlwaysExactlyOneReply ==
    \A h \in Handlers :
        /\ hs[h].pc # "panic"
        /\ Returned(h) => hs[h].wrote = 1
        /\ hs[h].pc # "idle" => hs[h].wrote = 0

\* C5: after a local miss, if an upstream answered, the reply carries exactly
\* the answer section of the first upstream that answered, and the upstreams
\* before it were asked in configuration order and failed.
C5_FirstSuccessfulUpstreamAnswers ==
    (Returned(1) /\ LocalMiss(1) /\ Succeeded(1) # {}) =>
        LET c == hs[1].contacts
            j == Min(Succeeded(1))
        IN  /\ hs[1].m.Answer = c[j].answer
            /\ \A i \in 1 .. j : c[i].server = recursors[i]
            /\ \A i \in 1 .. (j - 1) : ~c[i].ok

\* C5, its case: two upstreams, the first failed, the second answered with
\* two records, and the reply was written.
C5_Witness ==
    /\ Returned(1)
    /\ LocalMiss(1)
    /\ Len(hs[1].contacts) = 2
    /\ ~hs[1].contacts[1].ok
    /\ hs[1].contacts[2].ok
    /\ Len(hs[1].contacts[2].answer) = 2
    /\ hs[1].wrote = 1

\* C6: after a local miss, if no upstream answered (each failed, or none is
\* configured), the reply is written, its answer section is empty and it
\* carries no error code.
C6_ExhaustedRepliesEmpty ==
    (Returned(1) /\ LocalMiss(1) /\ Succeeded(1) = {}) =>
        /\ hs[1].wrote = 1
        /\ hs[1].m.Answer = <<>>
        /\ hs[1].m.Rcode = "Success"
        /\ Len(hs[1].contacts) = Len(recursors)

\* C6, its case: two upstreams are configured, both were asked and failed,
\* and the reply was written.
C6_Witness ==
    /\ Returned(1)
    /\ LocalMiss(1)
    /\ Len(recursors) = 2
    /\ Len(hs[1].contacts) = 2
    /\ Succeeded(1) = {}
    /\ hs[1].wrote = 1

-----------------------------------------------------------------------------
(* One handler at a time, A queries only: GetAddress called sequentially.  *)

InitSequential == InitWith(AddressConfigs)

NextSequential ==
    \/ LoadStep
    \/ /\ hist.queries < MaxCalls
       /\ \E r \in AddressRequests : Receive(1, r)
    \/ HandleStep(1)

SpecSequential == InitSequential /\ [][NextSequential]_vars

\* C9: of the first N GetAddress calls on a record of N addresses, the k-th
\* returns Addresses[(seed + k) mod N], so that N calls return each address
\* once.  hist.ret lists what the calls returned, hist.seedVal the seed.
C9_RoundRobinFromSeed ==
    \A d \in DomainIds :
        LET N == Len(Domains[d].Addresses)
            r == hist.ret[d]
        IN  /\ \A k \in 1 .. Len(r) :
                  k <= N =>
                      r[k] = Domains[d].Addresses[((hist.seedVal[d] + k) % N) + 1]
            /\ Len(r) >= N =>
                  \A i \in 1 .. N : \E k \in 1 .. N :
                      /\ r[k] = Domains[d].Addresses[i]
                      /\ \A l \in 1 .. N : r[l] = r[k] => l = k

\* C9, its case: three calls were made on the record of three addresses.
C9_Witness ==
    /\ Len(Domains[3].Addresses) = 3
    /\ Len(hist.ret[3]) = 3
    /\ hist.incs[3] = 3
    /\ Returned(1)

-----------------------------------------------------------------------------
(* Two handlers run concurrently, as the server starts one per message.    *)

InitConcurrent == InitWith(AddressConfigs)

NextConcurrent ==
    \/ LoadStep
    \/ /\ hist.queries < MaxConcQueries
       /\ \E h \in Handlers, r \in AddressRequests : Receive(h, r)
    \/ \E h \in Handlers : HandleStep(h)

SpecConcurrent == InitConcurrent /\ [][NextConcurrent]_vars

\* A GetAddress call on d is between its first and its last statement.
InGetAddress(h, d) ==
    /\ hs[h].domain = d
    /\ hs[h].pc \in {"once", "init", "increment", "store", "select"}

\* C7: no increment of the rotation counter is lost.  Whenever no handler
\* is between the read and the write of d.nextIdx++, the counter is the seed
\* plus the number of increments made; and when no call is in progress, the
\* counter values the calls selected with are the k values after the seed.
C7_NoLostUpdate ==
    \A d \in DomainIds :
        /\ (/\ once[d] = "done"
            /\ \A h \in Handlers : ~(hs[h].domain = d /\ hs[h].pc = "store"))
           => nextIdx[d] = (hist.seedVal[d] + hist.incs[d]) % Wrap
        /\ (/\ once[d] = "done"
            /\ \A h \in Handlers : ~InGetAddress(h, d))
           => {hist.val[d][k] : k \in 1 .. Len(hist.val[d])}
                 = {(hist.seedVal[d] + k) % Wrap : k \in 1 .. hist.incs[d]}

\* C10: the counter of a record is seeded at most once, however many
\* handlers make the first access together; it has been seeded, and
\* Once.Do has returned, before any handler reads or writes the counter for
\* its increment; and at most one handler runs init.
C10_SeededExactlyOnce ==
    \A d \in DomainIds :
        /\ hist.seeds[d] <= 1
        /\ (once[d] = "done") = (hist.seeds[d] = 1)
        /\ \A h \in Handlers :
              (hs[h].domain = d /\ hs[h].pc \in {"increment", "store", "select"})
              => (once[d] = "done" /\ hist.seeds[d] = 1)
        /\ \A g, h \in Handlers :
              (/\ hs[g].domain = d /\ hs[g].pc = "init"
               /\ hs[h].domain = d /\ hs[h].pc = "init")
              => g = h

\* C10, its case: the first two messages both reached GetAddress of the same
\* record before either call returned, and the record was seeded.
C10_Witness ==
    /\ hist.queries = 2
    /\ hs[1].domain = hs[2].domain
    /\ hs[1].pc \in {"increment", "store", "select"}
    /\ hs[2].pc \in {"increment", "store", "select"}
    /\ hist.seeds[hs[1].domain] = 1

-----------------------------------------------------------------------------
(* A hot reload runs while a handler serves queries.                       *)

InitReload == InitWith(AddressConfigs)

NextReload ==
    \/ LoadStep
    \/ \E cfg \in ReloadConfigs : Load(cfg)
    \/ /\ hist.queries < MaxQueries
       /\ \E r \in AddressRequests : Receive(1, r)
    \/ HandleStep(1)
    \/ MapRace(1)

SpecReload == InitReload /\ [][NextReload]_vars

\* C8: every lookup reads the indexes of one complete table, the one before
\* the reload or the one after it, and no lookup ends the process.
C8_LookupSeesCompleteTable ==
    \A h \in Handlers :
        /\ hs[h].seenOk
        /\ hs[h].pc # "fatal"


\* A name that starts with the wildcard marker without a '.' right after it.
MalformedWildcard(name) ==
    /\ Len(name) >= 1
    /\ name[1] = "*"
    /\ (Len(name) < 2 \/ name[2] # ".")

\* C11: a record whose name starts with '*' without a '.' right after it
\* (the name "*" alone included) makes Load return an error: the record is
\* in neither index, the process has not crashed, and NewSdns fails.
C11_MalformedWildcardIsError ==
    /\ (hist.stop.domain # nil
        /\ MalformedWildcard(Domains[hist.stop.domain].Name))
       => /\ hist.stop.outcome = "error"
          /\ status # "crashed"
          /\ \A k \in DOMAIN exactDomains :
                 exactDomains[k] # hist.stop.domain
          /\ \A k \in DOMAIN wildcardDomains :
                 wildcardDomains[k] # hist.stop.domain
          /\ (hist.reloads = 0 /\ ~hist.loading) => status = "failed"
    /\ \A d \in DomainIds :
           MalformedWildcard(Domains[d].Name)
           => \A i \in DOMAIN hist.loaded : hist.loaded[i] # d


\* The request handler h is working on, or has last answered, is a query
\* that carries no question.
ZeroQuestionQuery(h) ==
    /\ hs[h].handled
    /\ hs[h].r.Opcode = "Query"
    /\ Len(hs[h].r.Question) = 0

\* C12: a query without questions ends in ErrNoQuestions before any table
\* lookup: neither index is probed, no upstream is contacted, no step of its
\* handling changes a rotation counter, and the one reply written has an
\* empty answer section.
C12_NoQuestionsBeforeLookup ==
    /\ [](ZeroQuestionQuery(1)
          => /\ hs[1].local = "ErrNoQuestions"
             /\ hs[1].probes = 0
             /\ hs[1].contacts = <<>>
             /\ hs[1].m.Answer = <<>>
             /\ hs[1].pc \in {"write", "idle"}
             /\ hs[1].wrote = (IF hs[1].pc = "idle" THEN 1 ELSE 0))
    /\ [][(ZeroQuestionQuery(1) /\ hs[1].pc # "idle")
          => (nextIdx' = nextIdx /\ once' = once)]_vars

\* C12, its case: the reply to a query without questions has been written by
\* a server that has records loaded and recursors configured.
C12_Witness ==
    /\ ZeroQuestionQuery(1)
    /\ Returned(1)
    /\ hs[1].wrote = 1
    /\ hist.loaded # <<>>
    /\ recursors # <<>>


\* The request handler h is working on, or has last answered, has an opcode
\* other than query.
OtherOpcode(h) == hs[h].handled /\ hs[h].r.Opcode # "Query"

\* C13: a message whose opcode is not query is not resolved locally and not
\* forwarded, whatever the table and the recursors are: no index is probed,
\* no rotation counter changes, no upstream is contacted, and the one reply
\* written has an empty answer section.
C13_OtherOpcodeRepliesEmpty ==
    /\ [](OtherOpcode(1)
          => /\ hs[1].local = "none"
             /\ hs[1].probes = 0
             /\ hs[1].contacts = <<>>
             /\ hs[1].m.Answer = <<>>
             /\ hs[1].pc \in {"write", "idle"}
             /\ hs[1].wrote = (IF hs[1].pc = "idle" THEN 1 ELSE 0))
    /\ [][(OtherOpcode(1) /\ hs[1].pc # "idle")
          => (nextIdx' = nextIdx /\ once' = once)]_vars

\* C13, its case: a non-query message that asks for the address of a loaded
\* name, at a server with recursors, has been answered.
C13_Witness ==
    /\ OtherOpcode(1)
    /\ Returned(1)
    /\ hs[1].wrote = 1
    /\ recursors # <<>>
    /\ Len(hs[1].r.Question) >= 1
    /\ hs[1].r.Question[1].Qtype = "A"
    /\ ExactRecords(TrimRight(hs[1].r.Question[1].Name)) # {}


\* The request of handler h is a query with a first question.
HasQuestion(h) ==
    /\ hs[h].handled
    /\ hs[h].r.Opcode = "Query"
    /\ Len(hs[h].r.Question) >= 1

\* The first question of handler h has a type other than A and NS.
UnsupportedQuery(h) ==
    HasQuestion(h) /\ hs[h].r.Question[1].Qtype \notin {"A", "NS"}

\* The name of the first question of handler h, as answerA and answerNS look
\* it up.
QueriedName(h) == TrimRight(hs[h].r.Question[1].Name)

\* The loaded records hold nothing for name: no record of that name, and no
\* wildcard record for its suffix at the first '.'.
NoRecordFor(name) ==
    /\ ExactRecords(name) = {}
    /\ \A suffix \in FirstSuffixes(name) : WildcardRecords(suffix) = {}

\* The first question of handler h is an A or NS question for a name the
\* table has no record for.
MissedQuery(h) ==
    /\ HasQuestion(h)
    /\ hs[h].r.Question[1].Qtype \in {"A", "NS"}
    /\ NoRecordFor(QueriedName(h))

\* Handler h is in the recursion loop, or has left it the way the loop ends:
\* after a successful exchange or after the last recursor.
Forwarding(h) ==
    \/ hs[h].pc = "recurse"
    \/ /\ hs[h].pc \in {"write", "idle"}
       /\ Succeeded(h) # {} \/ Len(hs[h].contacts) = Len(recursors)

\* C14: a question of a type other than A and NS gives
\* ErrUnsupportedQueryType and starts the recursion without a table lookup,
\* also for a name that has a record; an A or NS question for a name without
\* a record gives ErrDomainNotFound and starts the recursion; and no other
\* request is ever forwarded.
C14_OnlyTwoErrorsForward ==
    /\ UnsupportedQuery(1)
       => /\ hs[1].local = "ErrUnsupportedQueryType"
          /\ hs[1].probes = 0
          /\ Forwarding(1)
    /\ (MissedQuery(1) /\ hs[1].pc \notin {"exact", "wildcard"})
       => /\ hs[1].local = "ErrDomainNotFound"
          /\ Forwarding(1)
    /\ (hs[1].pc = "recurse" \/ hs[1].contacts # <<>>)
       => UnsupportedQuery(1) \/ MissedQuery(1)

\* C14, its case: a question of an unsupported type for a name that has a
\* record of its own was forwarded to an upstream.
C14_Witness ==
    /\ UnsupportedQuery(1)
    /\ ExactRecords(QueriedName(1)) # {}
    /\ hs[1].contacts # <<>>
    /\ Returned(1)


\* FindDomainFromName(".") has been called and has returned.
BareSeparatorLookup == lookup.called /\ lookup.name = <<".">>

\* C15, as claimed: for every table, the name "." is not found.
C15_BareSeparatorNeverFound == BareSeparatorLookup => ~lookup.found

\* C15, amended: the name "." is found exactly when the table holds a record
\* named "." or a wildcard record named "*."; the exact record is returned
\* if there is one, else the wildcard record.
C15_BareSeparatorFoundOnlyIfLoaded ==
    BareSeparatorLookup
    => /\ lookup.found
          <=> (ExactRecords(<<".">>) # {} \/ WildcardRecords(<<".">>) # {})
       /\ ExactRecords(<<".">>) # {}
          => lookup.domain = hist.loaded[Max(ExactRecords(<<".">>))]
       /\ (ExactRecords(<<".">>) = {} /\ WildcardRecords(<<".">>) # {})
          => lookup.domain = hist.loaded[Max(WildcardRecords(<<".">>))]

\* C15, its case: "." was looked up in a table that has wildcard records,
\* none of them named "*.", and was not found.
C15_Witness ==
    /\ BareSeparatorLookup
    /\ ~lookup.found
    /\ wildcardDomains # EmptyMap
    /\ exactDomains # EmptyMap


\* The elements of the sequence s.
Range(s) == {s[i] : i \in DOMAIN s}

\* Load has run to its return statement, or has returned.
LoadDone ==
    \/ load.pc = "return"
    \/ load.pc = "idle" /\ ~hist.loading

\* The records and the error of the Load that is done.
DoneDomains == IF load.pc = "return" THEN load.cfg.Domains ELSE hist.cfgDoms

DoneErr == IF load.pc = "return" THEN load.err ELSE hist.loadErr

\* C16: a Load with the same records as the Load before it leaves every
\* lookup result as it was; and after a Load without error both indexes hold
\* records of its configuration only, so every name that is found is found
\* with a record of that configuration.
C16_LoadIdempotentAndExclusive ==
    /\ (/\ load.pc = "return"
        /\ load.caller = "reload"
        /\ load.cfg.Domains = hist.cfgDoms)
       => \A name \in StringsUpTo(MaxNameLen) :
              FindDomainFromName(exactDomains, wildcardDomains, name)
              = FindDomainFromName(hist.old.ex, hist.old.wc, name)
    /\ (LoadDone /\ DoneErr = "nil")
       => /\ \A k \in DOMAIN exactDomains :
                 exactDomains[k] \in Range(DoneDomains)
          /\ \A k \in DOMAIN wildcardDomains :
                 wildcardDomains[k] \in Range(DoneDomains)
          /\ \A name \in StringsUpTo(MaxNameLen) :
                 LET res == FindDomainFromName(exactDomains, wildcardDomains,
                                               name)
                 IN  res.found => res.domain \in Range(DoneDomains)

\* C16, its case: a hot reload with the records of the configuration before
\* it, an exact and a wildcard one, has run to its end over a table that
\* held them.
C16_Witness ==
    /\ load.pc = "return"
    /\ load.caller = "reload"
    /\ load.err = "nil"
    /\ load.cfg.Domains = hist.cfgDoms
    /\ hist.old.ex # EmptyMap
    /\ hist.old.wc # EmptyMap
    /\ exactDomains = hist.old.ex
    /\ wildcardDomains = hist.old.wc


\* C17: every entry of the exact index is a record under its own name, which
\* does not start with '*'; every entry of the wildcard index is a record
\* under its name without the leading '*', a key that starts with '.'. This
\* holds at every point of every Load, hence after it.
C17_IndexEntriesWellFormed ==
    /\ \A k \in DOMAIN exactDomains :
           /\ Domains[exactDomains[k]].Name = k
           /\ k # <<>>
           /\ k[1] # "*"
    /\ \A k \in DOMAIN wildcardDomains :
           /\ Domains[wildcardDomains[k]].Name = <<"*">> \o k
           /\ k # <<>>
           /\ k[1] = "."

\* C17, its case: a Load has returned and left entries in both indexes.
C17_Witness ==
    /\ LoadDone
    /\ load.pc = "idle"
    /\ exactDomains # EmptyMap
    /\ wildcardDomains # EmptyMap

\* C18: once NewSdns has returned the server, no step changes the listen
\* address, its port or the recursor list: a hot reload replaces the two
\* indexes only.
C18_ReloadKeepsListenAndRecursors ==
    [][status = "serving"
       => (address' = address /\ recursors' = recursors)]_vars

\* C18, its case: a hot reload whose configuration names another address,
\* another port and other recursors has returned, and the indexes are the
\* ones it built.
C18_Witness ==
    /\ status = "serving"
    /\ hist.reloads >= 1
    /\ load.pc = "idle"
    /\ hist.loadErr = "nil"
    /\ hist.loaded # <<>>
    /\ \A cfg \in ReloadConfigs :
           /\ address # <<cfg.Address, cfg.Port>>
           /\ address[1] # cfg.Address
           /\ address[2] # cfg.Port
           /\ recursors # cfg.Recursors


-----------------------------------------------------------------------------
(* util.CsvStringToMap (util/string_parsing.go), which main.go applies to  *)
(* each --domain argument before NewSdns is called.                        *)

\* The characters of the strings given to CsvStringToMap: a letter and the
\* two separators.
CsvChars == {"a", "=", ","}

\* strings.Split(s, ","): the pieces between the commas, in order; a string
\* without a comma, the empty string included, is one piece.
RECURSIVE Split(_)
Split(s) ==
    LET i == IndexByte(s, ",")
    IN  IF i < 0 THEN <<s>>
        ELSE <<SubSeq(s, 1, i)>> \o Split(SliceFrom(s, i + 1))

\* strings.SplitN(value, "=", 2): the piece cut at its first '=', or the
\* piece alone if it has none.
SplitN(value) ==
    LET i == IndexByte(value, "=")
    IN  IF i < 0 THEN <<value>>
        ELSE <<SubSeq(value, 1, i), SliceFrom(value, i + 1)>>

\* A loop that keeps the last value of a key only.
RECURSIVE CsvLoop_overwrite(_, _, _)
CsvLoop_overwrite(values, i, res) ==
    IF i > Len(values) THEN [res |-> res, err |-> "nil"]
    ELSE LET pair == SplitN(values[i])
         IN  IF Len(pair) # 2 THEN [res |-> res, err |-> "malformed"]
             ELSE CsvLoop_overwrite(values, i + 1,
                                    MapPut(res, pair[1], <<pair[2]>>))

\* Lines 18-35: the loop over the pieces, from piece i on.
RECURSIVE CsvLoop(_, _, _)
CsvLoop(values, i, res) ==
    IF i > Len(values) THEN [res |-> res, err |-> "nil"]
    ELSE LET pair == SplitN(values[i])
             got == MapGet(res, pair[1])
         IN  IF Len(pair) # 2 THEN [res |-> res, err |-> "malformed"]
             ELSE IF ~got.ok
                  THEN CsvLoop(values, i + 1,
                               MapPut(res, pair[1], <<pair[2]>>))
                  ELSE CsvLoop(values, i + 1,
                               MapPut(res, pair[1], Append(res[pair[1]],
                                                           pair[2])))

CsvStringToMap(str) == CsvLoop(Split(str), 1, EmptyMap)

\* main.go, line 45: one --domain argument is parsed.
ParseDomainString ==
    /\ ~csv.called
    /\ LET r == CsvStringToMap(csv.str)
       IN  csv' = [csv EXCEPT !.called = TRUE, !.res = r.res, !.err = r.err]
    /\ UNCHANGED <<status, exactDomains, wildcardDomains, address, recursors,
                   nextIdx, once, load, lookup, hs, hist>>

\* The process before NewSdns, with any --domain argument.
InitCsv ==
    /\ status = "new"
    /\ exactDomains = EmptyMap
    /\ wildcardDomains = EmptyMap
    /\ address = <<>>
    /\ recursors = <<>>
    /\ nextIdx = [d \in DomainIds |-> 0]
    /\ once = [d \in DomainIds |-> "fresh"]
    /\ load = NoLoad
    /\ lookup = NoLookup
    /\ hs = [h \in Handlers |-> NoHandler]
    /\ hist = HistInit
    /\ \E str \in SeqsUpTo(CsvChars, MaxCsvLen) :
          csv = [NoCsv EXCEPT !.str = str]

NextCsv == ParseDomainString

SpecCsv == InitCsv /\ [][NextCsv]_vars

\* The positions at which the comma-separated segments of s start.
SegmentStarts(s) == {1} \cup {i + 1 : i \in {j \in DOMAIN s : s[j] = ","}}

\* The segment of s that starts at p: up to the next comma or the end.
Segment(s, p) ==
    LET stops == {j \in p .. Len(s) : s[j] = ","}
    IN  SubSeq(s, p, IF stops = {} THEN Len(s) ELSE Min(stops) - 1)

\* The positions of '=' in the segment seg.
Equals(seg) == {i \in DOMAIN seg : seg[i] = "="}

\* The text of seg before its first '=', and the text after it.
SegmentKey(seg) == SubSeq(seg, 1, Min(Equals(seg)) - 1)

SegmentValue(seg) == SubSeq(seg, Min(Equals(seg)) + 1, Len(seg))

\* The starts of the segments of s whose key is k, and the n-th of them.
StartsOfKey(s, k) == {p \in SegmentStarts(s) : SegmentKey(Segment(s, p)) = k}

NthStart(s, k, n) ==
    CHOOSE p \in StartsOfKey(s, k) :
        Cardinality({q \in StartsOfKey(s, k) : q < p}) = n - 1

\* C19: CsvStringToMap returns an error exactly when some comma-separated
\* segment has no '=' (so for the empty string); otherwise the keys are the
\* texts before the first '=' of the segments, and the list of a key holds
\* the texts after the first '=' of all its segments, in input order.
C19_CsvStringToMap ==
    csv.called
    => /\ csv.err # "nil"
          <=> \E p \in SegmentStarts(csv.str) :
                  Equals(Segment(csv.str, p)) = {}
       /\ csv.err = "nil"
          => /\ DOMAIN csv.res
                = {SegmentKey(Segment(csv.str, p)) :
                       p \in SegmentStarts(csv.str)}
             /\ \A k \in DOMAIN csv.res :
                    /\ Len(csv.res[k]) = Cardinality(StartsOfKey(csv.str, k))
                    /\ \A n \in DOMAIN csv.res[k] :
                           csv.res[k][n]
                           = SegmentValue(Segment(csv.str,
                                                  NthStart(csv.str, k, n)))

\* C19, its case: a string with two segments of one key and different
\* values was parsed without error.
C19_Witness ==
    /\ csv.called
    /\ csv.err = "nil"
    /\ \E k \in DOMAIN csv.res :
           /\ Len(csv.res[k]) = 2
           /\ csv.res[k][1] # csv.res[k][2]


-----------------------------------------------------------------------------
(* The recursion loop of handle.                                           *)

\* C20: the upstreams a query is forwarded to are the recursors in
\* configuration order, each position of the list at most once: the i-th
\* exchange is with the i-th recursor, every exchange but the last has
\* failed, and a recursor is left out only after an exchange that succeeded,
\* with or without answers.
C20_UpstreamsInOrderUntilSuccess ==
    LET c == hs[1].contacts
    IN  /\ Len(c) <= Len(recursors)
        /\ \A i \in DOMAIN c :
               /\ c[i].server = recursors[i]
               /\ i < Len(c) => ~c[i].ok
        /\ hs[1].pc = "recurse" => /\ Succeeded(1) = {}
                                   /\ hs[1].ri = Len(c) + 1
        /\ (LocalMiss(1) /\ hs[1].pc \in {"write", "idle"})
           => Succeeded(1) # {} \/ Len(c) = Len(recursors)

\* C20, its case: the first of two recursors failed, the second answered
\* with an empty answer section, and the reply was written.
C20_Witness ==
    /\ Returned(1)
    /\ Len(recursors) = 2
    /\ recursors[1] # recursors[2]
    /\ Len(hs[1].contacts) = 2
    /\ ~hs[1].contacts[1].ok
    /\ hs[1].contacts[2].ok
    /\ hs[1].contacts[2].answer = <<>>


-----------------------------------------------------------------------------
(* Local answers: answerA and answerNS on a hit.                           *)

\* The record the loaded table holds for name, if NoRecordFor(name) is
\* false: the last record of that name, else the last wildcard record for
\* the suffix of name at its first '.'.
HitRecord(name) ==
    IF ExactRecords(name) # {}
    THEN hist.loaded[Max(ExactRecords(name))]
    ELSE LET s == CHOOSE x \in FirstSuffixes(name) : WildcardRecords(x) # {}
         IN  hist.loaded[Max(WildcardRecords(s))]

\* The first question of handler h has the type qtype and a name the table
\* has a record for.
HitQuery(h, qtype) ==
    /\ HasQuestion(h)
    /\ hs[h].r.Question[1].Qtype = qtype
    /\ ~NoRecordFor(QueriedName(h))

\* C21: an A query whose name hits a record is answered locally: the
\* handler does not crash, contacts no upstream, and returns with exactly
\* one A record, for the name as sent and an address of the record's pool.
C21_AHitAnswersOneAddress ==
    HitQuery(1, "A")
    => /\ hs[1].pc # "panic"
       /\ hs[1].contacts = <<>>
       /\ Returned(1)
          => \E addr \in Range(Domains[HitRecord(QueriedName(1))].Addresses) :
                 hs[1].m.Answer
                 = <<RR(hs[1].r.Question[1].Name, "A", addr)>>


\* The nameservers of the record that the NS question of handler h hits.
HitNameservers(h) == Domains[HitRecord(QueriedName(h))].Nameservers

\* dns.NewRR accepts the NS record for the nameserver ns.
Constructible(h, ns) == NewRR(hs[h].r.Question[1].Name, "NS", ns).err = "nil"

\* The reply of handler h carries one NS record for each nameserver of nss,
\* in order, for the name as sent; no error was raised and no upstream was
\* contacted.
AnsweredWith(h, nss) ==
    /\ hs[h].m.Answer
       = [i \in 1 .. Len(nss) |-> RR(hs[h].r.Question[1].Name, "NS", nss[i])]
    /\ hs[h].local = "nil"
    /\ hs[h].contacts = <<>>
    /\ hs[h].wrote = 1

ConstructibleOf(h, nss) == SelectSeq(nss, LAMBDA ns : Constructible(h, ns))

\* C23: when the NS record of one nameserver cannot be constructed, only
\* that record is missing from the reply: the records of the nameservers
\* before and after it are there, in order, and no upstream is contacted.
C23_OnlyFailedRecordDropped ==
    (HitQuery(1, "NS") /\ Returned(1))
    => /\ hs[1].m.Answer
          = [i \in 1 .. Len(ConstructibleOf(1, HitNameservers(1))) |->
                RR(hs[1].r.Question[1].Name, "NS",
                   ConstructibleOf(1, HitNameservers(1))[i])]
       /\ hs[1].contacts = <<>>
       /\ hs[1].wrote = 1


-----------------------------------------------------------------------------
(* One handler at a time, A queries only, for as many calls as take the    *)
(* counter of a record past its largest value.                             *)

InitWrap == InitWith(AddressConfigs)

NextWrap ==
    \/ LoadStep
    \/ /\ hist.queries < WrapCalls
       /\ \E r \in AddressRequests : Receive(1, r)
    \/ HandleStep(1)

SpecWrap == InitWrap /\ [][NextWrap]_vars

\* The 0-based position of addr in the address pool of record d.
PoolIndex(d, addr) ==
    (CHOOSE i \in DOMAIN Domains[d].Addresses :
         Domains[d].Addresses[i] = addr) - 1

\* C24: whatever the counter is, also when it has passed its largest value
\* and is 0 again, the selected index is within 0 .. N-1, each call returns
\* the address after the one the call before it returned, cyclically, and
\* any N consecutive calls return each address once.
C24_WrapSafeRotation ==
    \A d \in DomainIds :
        LET N == Len(Domains[d].Addresses)
            r == hist.ret[d]
        IN  /\ \A k \in DOMAIN hist.val[d] :
                   AddressIndex(hist.val[d][k], N) \in 0 .. (N - 1)
            /\ \A k \in 1 .. (Len(r) - 1) :
                   PoolIndex(d, r[k + 1]) = (PoolIndex(d, r[k]) + 1) % N
            /\ \A k \in 1 .. (Len(r) - N + 1) :
                   {r[j] : j \in k .. (k + N - 1)}
                   = Range(Domains[d].Addresses)


-----------------------------------------------------------------------------
(* Further properties of Load.                                             *)

\* C25: after a Load without error, a key for which the configuration lists
\* several records maps to the last of them, in the exact index and in the
\* wildcard index alike; and a lookup that finds a record returns the last
\* record of the key it found it under.
C25_LastDuplicateWins ==
    /\ (LoadDone /\ DoneErr = "nil")
       => /\ \A k \in DOMAIN exactDomains :
                 /\ ExactRecords(k) # {}
                 /\ exactDomains[k] = hist.loaded[Max(ExactRecords(k))]
          /\ \A k \in DOMAIN wildcardDomains :
                 /\ WildcardRecords(k) # {}
                 /\ wildcardDomains[k] = hist.loaded[Max(WildcardRecords(k))]
    /\ (lookup.called /\ lookup.found /\ ~NoRecordFor(lookup.name))
       => lookup.domain = HitRecord(lookup.name)

\* C25, its case: the configuration lists two different records of one
\* name, and a lookup of that name has returned.
C25_Witness ==
    /\ lookup.called
    /\ lookup.found
    /\ Cardinality(ExactRecords(lookup.name)) = 2
    /\ hist.loaded[Min(ExactRecords(lookup.name))]
       # hist.loaded[Max(ExactRecords(lookup.name))]


\* The records of the list doms before its first malformed wildcard record.
BeforeMalformed(doms) ==
    SubSeq(doms, 1,
           Min({i \in DOMAIN doms :
                    MalformedWildcard(Domains[doms[i]].Name)}) - 1)

\* The positions in the list doms of the records that Load files under the
\* key k of the exact index and of the wildcard index.
ExactAt(doms, k) ==
    {i \in DOMAIN doms : Domains[doms[i]].Name = k /\ k[1] # "*"}

WildcardAt(doms, k) ==
    {i \in DOMAIN doms : Domains[doms[i]].Name = <<"*">> \o k}

\* C27: a Load that returns the error for a malformed wildcard name leaves
\* in the two indexes exactly the records listed before the malformed one,
\* the last of each key: nothing of the table before the Load, and nothing
\* of the records listed after the malformed one.
C27_FailedLoadLeavesPrefix ==
    (LoadDone /\ DoneErr = "malformed")
    => LET prefix == BeforeMalformed(DoneDomains)
       IN  /\ DOMAIN exactDomains
              = {Domains[prefix[i]].Name :
                     i \in {j \in DOMAIN prefix :
                                Domains[prefix[j]].Name[1] # "*"}}
           /\ \A k \in DOMAIN exactDomains :
                  exactDomains[k] = prefix[Max(ExactAt(prefix, k))]
           /\ DOMAIN wildcardDomains
              = {Tail(Domains[prefix[i]].Name) :
                     i \in {j \in DOMAIN prefix :
                                Domains[prefix[j]].Name[1] = "*"}}
           /\ \A k \in DOMAIN wildcardDomains :
                  wildcardDomains[k] = prefix[Max(WildcardAt(prefix, k))]

\* C27, its case: a hot reload whose second record is malformed has failed
\* over a table that held other records, and the table is no longer that
\* one.
C27_Witness ==
    /\ load.pc = "return"
    /\ load.caller = "reload"
    /\ load.err = "malformed"
    /\ Len(BeforeMalformed(load.cfg.Domains)) = 1
    /\ hist.old.ex # EmptyMap
    /\ hist.old.wc # EmptyMap
    /\ exactDomains # hist.old.ex
    /\ wildcardDomains # hist.old.wc


-----------------------------------------------------------------------------
(* What handling a query changes.                                          *)

\* No step taken while the server serves changes the Domain Table.
TableReadOnly ==
    status = "serving"
    => /\ exactDomains' = exactDomains
       /\ wildcardDomains' = wildcardDomains

\* The counter of record d goes from its value to the next one.
Advances(d) == nextIdx'[d] = Increment(nextIdx[d])

\* The counter of record d is seeded by the first GetAddress call on d.
SeedsCounter(d) ==
    /\ once[d] # "done"
    /\ once'[d] = "done"
    /\ nextIdx'[d] \in Seeds

\* The number of times handler h has written a counter for the request it
\* is handling or has handled last: one for an A hit that has passed
\* d.nextIdx++, none otherwise.
BumpsAsClaimed(h) ==
    /\ hs[h].bumps
       = (IF /\ HitQuery(h, "A")
             /\ hs[h].pc \in {"select", "panic", "write", "idle"}
          THEN 1 ELSE 0)
    /\ hs[h].bumps > 0 => hs[h].domain = HitRecord(QueriedName(h))

\* C26, as claimed: handling a query never changes the table; a step that
\* changes a counter belongs to an A hit and advances the counter of the
\* matched record by exactly one, leaving the others; an A hit does it
\* once, every other request never.
C26_OnlyAHitAdvancesByOne ==
    /\ [][TableReadOnly]_vars
    /\ [][nextIdx' # nextIdx
          => /\ HitQuery(1, "A")
             /\ Advances(HitRecord(QueriedName(1)))
             /\ \A e \in DomainIds \ {HitRecord(QueriedName(1))} :
                    nextIdx'[e] = nextIdx[e]]_vars
    /\ [](BumpsAsClaimed(1))

\* C26, amended: the same, where the first A hit on a record also seeds the
\* counter of that record, before it advances it by one.
C26_OnlyAHitSeedsAndAdvances ==
    /\ [][TableReadOnly]_vars
    /\ [][nextIdx' # nextIdx
          => /\ HitQuery(1, "A")
             /\ \/ Advances(HitRecord(QueriedName(1)))
                \/ SeedsCounter(HitRecord(QueriedName(1)))
             /\ \A e \in DomainIds \ {HitRecord(QueriedName(1))} :
                    nextIdx'[e] = nextIdx[e]]_vars
    /\ [](BumpsAsClaimed(1))

\* C26, its case: the second A hit on a record has returned: the record was
\* seeded by the first, and its counter was advanced once by each.
C26_Witness ==
    /\ Returned(1)
    /\ HitQuery(1, "A")
    /\ hs[1].bumps = 1
    /\ hist.incs[HitRecord(QueriedName(1))] = 2
    /\ hist.seeds[HitRecord(QueriedName(1))] = 1

====
